---- MODULE Spec2Model ----
(***************************************************************************)
(* A model of lab1.cpp: the Service record and its comparison operators,   *)
(* the CSV reader, the three hand-written sorts (step by step, with every  *)
(* element access recorded), timeSort and the experiment driver of main.   *)
(*                                                                         *)
(* Text is a sequence of one-character strings; the real-valued fields     *)
(* cost and prepayment are counted in thousandths, so that printing with   *)
(* two decimals is a rounding and not the identity.                        *)
(***************************************************************************)
EXTENDS Integers, Sequences, FiniteSets, TLC

VARIABLES
    \* operands and results of the comparison operators
    opA, opB, opC, rel,
    \* a sort routine in progress: the caller's vector on entry, and the
    \* routine's locals (arr, n, i, j, key, swapped, start, end)
    input, srt,
    \* loadServices in progress: the line just read, tempService, services
    line, tempService, services, lineNo,
    \* main: position, loop index, the dataset files on disk, currentData,
    \* currentSize, the vector handed to the sort inside timeSort and its
    \* value on return, the timing stream (buffered / on disk), the sorted
    \* output file, what was reported for each size
    pc, idx, files, currentData, currentSize, sortArg, dataCopy,
    timingBuf, timingDisk, outputFile, status

cmpVars == <<opA, opB, opC, rel>>
sortVars == <<input, srt>>
parseVars == <<line, tempService, services, lineNo>>
mainVars == <<pc, idx, files, currentData, currentSize, sortArg, dataCopy,
              timingBuf, timingDisk, outputFile, status>>
vars == <<cmpVars, sortVars, parseVars, mainVars>>

(***************************************************************************)
(* Bounds of the model.                                                    *)
(***************************************************************************)
\* longest vector handed to a sort routine
MaxLen == 4
\* cost and prepayment of the records compared and sorted range over 0..MaxAmount
MaxAmount == 1
\* number of entries of datasetSizes the driver goes through
NumSizes == 3
\* number of lines read from one file when the reader is run line by line
MaxFileLines == 2

(***************************************************************************)
(* Text.                                                                   *)
(***************************************************************************)
SeqsUpTo(S, m) == UNION {[1..k -> S] : k \in 0..m}

\* the characters used in names and lines, in ASCII order
Alphabet == <<",", "-", ".", "0", "1", "2", "3", "4", "5", "6", "7", "8", "9",
              "A", "B", "x">>

Ord(c) == CHOOSE k \in 1..Len(Alphabet) : Alphabet[k] = c

Digits == {"0", "1", "2", "3", "4", "5", "6", "7", "8", "9"}

DigitValue(c) == Ord(c) - Ord("0")

\* std::string operator< : lexicographic, a proper prefix is smaller
RECURSIVE StrLess(_, _)
StrLess(s, t) ==
    IF t = <<>> THEN FALSE
    ELSE IF s = <<>> THEN TRUE
    ELSE IF Head(s) # Head(t) THEN Ord(Head(s)) < Ord(Head(t))
    ELSE StrLess(Tail(s), Tail(t))

(***************************************************************************)
(* struct Service and its comparison operators.                            *)
(***************************************************************************)
\* Service() : cost(0.0), duration(0), prepayment(0.0)
DefaultService == [name |-> <<>>, cost |-> 0, duration |-> 0, prepayment |-> 0]

\* a faulty variant of Less: the prepayment tie-break is forgotten
LessNoPrepayment(a, b) ==
    IF a.cost # b.cost THEN a.cost < b.cost
    ELSE StrLess(a.name, b.name)

\* bool operator<(const Service& other) const
Less(a, b) ==
    IF a.cost # b.cost THEN a.cost < b.cost
    ELSE IF a.prepayment # b.prepayment THEN a.prepayment < b.prepayment
    ELSE StrLess(a.name, b.name)

\* a faulty variant of Greater: >= in place of >
GreaterOrEqual(a, b) == ~Less(a, b)

\* bool operator>(const Service& other) const
Greater(a, b) == Less(b, a)

\* bool operator==(const Service& other) const
Equal(a, b) == a.cost = b.cost /\ a.prepayment = b.prepayment /\ a.name = b.name

\* the names of the records compared: the empty name, one and two characters
Names == {<<>>, <<"A">>, <<"B">>, <<"A", "B">>}

\* every record over the names above with amounts in 0..MaxAmount
Service == [name : Names, cost : 0..MaxAmount, duration : 0..1,
            prepayment : 0..MaxAmount]

(***************************************************************************)
(* The comparison operators applied to three records.                      *)
(***************************************************************************)
NoResult == [done |-> FALSE]

IdleCmp ==
    /\ opA = DefaultService /\ opB = DefaultService /\ opC = DefaultService
    /\ rel = NoResult

Compare ==
    /\ rel = NoResult
    /\ \E a \in Service, b \in Service, c \in Service :
        /\ opA' = a /\ opB' = b /\ opC' = c
        /\ rel' = [done |-> TRUE,
                   aa |-> Less(a, a), ab |-> Less(a, b), ba |-> Less(b, a),
                   bc |-> Less(b, c), ac |-> Less(a, c), eq |-> Equal(a, b)]
    /\ UNCHANGED <<sortVars, parseVars, mainVars>>

(***************************************************************************)
(* The sort routines, one comparison or assignment per step.  Indices are  *)
(* the code's, from 0; acc holds the indices of arr the step accessed.  An *)
(* access outside 0..n-1 is undefined behaviour: the step ends in "ub".    *)
(***************************************************************************)
At(arr, k) == arr[k + 1]

Put(arr, k, v) == [arr EXCEPT ![k + 1] = v]

\* std::swap(arr[a], arr[b])
Swap(arr, a, b) == [arr EXCEPT ![a + 1] = arr[b + 1], ![b + 1] = arr[a + 1]]

InRange(s, ks) == \A k \in ks : 0 <= k /\ k < Len(s.arr)

\* the step's result when all its accesses are inside the vector
Access(s, ks, next) ==
    IF InRange(s, ks) THEN [next EXCEPT !.acc = ks]
    ELSE [s EXCEPT !.pc = "ub", !.acc = ks]

\* the locals of the three routines on entry
SortInit(alg, a) ==
    [alg |-> alg, arr |-> a, n |-> Len(a), acc |-> {}, key |-> DefaultService,
     j |-> 0,
     pc |-> IF alg = "shaker" THEN "while" ELSE "outer",
     i |-> IF alg = "insertion" THEN 1 ELSE 0,
     swapped |-> (alg = "shaker"),
     start |-> 0,
     end |-> Len(a) - 1]

\* a faulty variant of BubbleInnerBound: the last pair of the pass is left out
BubbleInnerBoundShort(n, i) == n - i - 2

\* a faulty variant of BubbleInnerBound: the pass runs one pair too far
BubbleInnerBoundLong(n, i) == n - i

\* the bound of bubbleSort's inner loop: j < n - i - 1
BubbleInnerBound(n, i) == n - i - 1

\* one step of the pair comparison shared by bubbleSort and shakerSort:
\* if (arr[k] > arr[k + 1]) { std::swap(arr[k], arr[k + 1]); swapped = true; }
CompareSwap(s, k) ==
    IF Greater(At(s.arr, k), At(s.arr, k + 1))
    THEN [s EXCEPT !.arr = Swap(s.arr, k, k + 1), !.swapped = TRUE]
    ELSE s

BubbleStep(s) ==
    CASE s.pc = "outer" ->
            IF s.i < s.n - 1
            THEN [s EXCEPT !.swapped = FALSE, !.j = 0, !.pc = "inner", !.acc = {}]
            ELSE [s EXCEPT !.pc = "done", !.acc = {}]
      [] s.pc = "inner" ->
            IF s.j < BubbleInnerBound(s.n, s.i)
            THEN Access(s, {s.j, s.j + 1},
                        IF InRange(s, {s.j, s.j + 1})
                        THEN [CompareSwap(s, s.j) EXCEPT !.j = s.j + 1]
                        ELSE s)
            ELSE [s EXCEPT !.pc = "check", !.acc = {}]
      [] s.pc = "check" ->
            IF ~s.swapped
            THEN [s EXCEPT !.pc = "done", !.acc = {}]
            ELSE [s EXCEPT !.i = s.i + 1, !.pc = "outer", !.acc = {}]

\* where insertionSort starts to look for the place of arr[i]: int j = i - 1
InsertionFirst(i) == i - 1

InsertionStep(s) ==
    CASE s.pc = "outer" ->
            IF s.i < s.n
            THEN Access(s, {s.i},
                        IF InRange(s, {s.i})
                        THEN [s EXCEPT !.key = At(s.arr, s.i),
                                       !.j = InsertionFirst(s.i), !.pc = "while"]
                        ELSE s)
            ELSE [s EXCEPT !.pc = "done", !.acc = {}]
      [] s.pc = "while" ->
            IF s.j >= 0
            THEN IF ~InRange(s, {s.j}) THEN Access(s, {s.j}, s)
                 ELSE IF Greater(At(s.arr, s.j), s.key)
                 THEN Access(s, {s.j, s.j + 1},
                             IF InRange(s, {s.j + 1})
                             THEN [s EXCEPT !.arr = Put(s.arr, s.j + 1, At(s.arr, s.j)),
                                            !.j = s.j - 1]
                             ELSE s)
                 ELSE [s EXCEPT !.pc = "place", !.acc = {s.j}]
            ELSE [s EXCEPT !.pc = "place", !.acc = {}]
      [] s.pc = "place" ->
            Access(s, {s.j + 1},
                   IF InRange(s, {s.j + 1})
                   THEN [s EXCEPT !.arr = Put(s.arr, s.j + 1, s.key),
                                  !.i = s.i + 1, !.pc = "outer"]
                   ELSE s)

\* a faulty variant of ShakerBackwardLimit: the backward pass stops one pair early
ShakerBackwardLimitShort(start) == start + 1

\* the last index of shakerSort's backward pass: i >= start
ShakerBackwardLimit(start) == start

\* the right border after a forward pass: --end
ShakerNextEnd(end) == end - 1

ShakerStep(s) ==
    CASE s.pc = "while" ->
            IF s.swapped
            THEN [s EXCEPT !.swapped = FALSE, !.i = s.start, !.pc = "fwd", !.acc = {}]
            ELSE [s EXCEPT !.pc = "done", !.acc = {}]
      [] s.pc = "fwd" ->
            IF s.i < s.end
            THEN Access(s, {s.i, s.i + 1},
                        IF InRange(s, {s.i, s.i + 1})
                        THEN [CompareSwap(s, s.i) EXCEPT !.i = s.i + 1]
                        ELSE s)
            ELSE [s EXCEPT !.pc = "mid", !.acc = {}]
      [] s.pc = "mid" ->
            IF ~s.swapped
            THEN [s EXCEPT !.pc = "done", !.acc = {}]
            ELSE [s EXCEPT !.swapped = FALSE, !.end = ShakerNextEnd(s.end),
                           !.i = ShakerNextEnd(s.end) - 1, !.pc = "bwd", !.acc = {}]
      [] s.pc = "bwd" ->
            IF s.i >= ShakerBackwardLimit(s.start)
            THEN Access(s, {s.i, s.i + 1},
                        IF InRange(s, {s.i, s.i + 1})
                        THEN [CompareSwap(s, s.i) EXCEPT !.i = s.i - 1]
                        ELSE s)
            ELSE [s EXCEPT !.start = s.start + 1, !.pc = "while", !.acc = {}]

Finished(s) == s.pc \in {"done", "ub"}

SortStep(s) ==
    CASE s.alg = "bubble" -> BubbleStep(s)
      [] s.alg = "insertion" -> InsertionStep(s)
      [] s.alg = "shaker" -> ShakerStep(s)

\* a routine run from entry to return
RECURSIVE RunFrom(_)
RunFrom(s) == IF Finished(s) THEN s ELSE RunFrom(SortStep(s))

bubbleSort(a) == RunFrom(SortInit("bubble", a)).arr

insertionSort(a) == RunFrom(SortInit("insertion", a)).arr

shakerSort(a) == RunFrom(SortInit("shaker", a)).arr

(***************************************************************************)
(* The sort routines run step by step on every short vector of records.    *)
(***************************************************************************)
\* the records sorted: the default record with at most one field changed
SampleServices ==
    {r \in [name : {<<>>, <<"A">>}, cost : 0..MaxAmount, duration : 0..1,
            prepayment : 0..MaxAmount] :
        Cardinality({f \in {"name", "cost", "duration", "prepayment"} :
                        r[f] # DefaultService[f]}) <= 1}

Algorithms == {"bubble", "insertion", "shaker"}

IdleSort == input = <<>> /\ srt = SortInit("bubble", <<>>)

IdleParse ==
    line = <<>> /\ tempService = DefaultService /\ services = <<>> /\ lineNo = 0

IdleMain ==
    /\ pc = "idle" /\ idx = 0 /\ files = <<>> /\ currentData = <<>>
    /\ currentSize = 0 /\ sortArg = <<>> /\ dataCopy = <<>>
    /\ timingBuf = <<>> /\ timingDisk = <<>> /\ outputFile = <<>>
    /\ status = <<>>

InitSort ==
    /\ input \in SeqsUpTo(SampleServices, MaxLen)
    /\ \E alg \in Algorithms : srt = SortInit(alg, input)
    /\ IdleCmp /\ IdleParse /\ IdleMain

InitCmp == IdleCmp /\ IdleSort /\ IdleParse /\ IdleMain

BubbleSortStep ==
    /\ srt.alg = "bubble" /\ ~Finished(srt)
    /\ srt' = BubbleStep(srt)
    /\ UNCHANGED <<input, cmpVars, parseVars, mainVars>>

InsertionSortStep ==
    /\ srt.alg = "insertion" /\ ~Finished(srt)
    /\ srt' = InsertionStep(srt)
    /\ UNCHANGED <<input, cmpVars, parseVars, mainVars>>

ShakerSortStep ==
    /\ srt.alg = "shaker" /\ ~Finished(srt)
    /\ srt' = ShakerStep(srt)
    /\ UNCHANGED <<input, cmpVars, parseVars, mainVars>>

(***************************************************************************)
(* Reading records: operator>> and loadServices.                           *)
(***************************************************************************)
RECURSIVE DigitPrefix(_)
DigitPrefix(t) ==
    IF t # <<>> /\ Head(t) \in Digits THEN <<Head(t)>> \o DigitPrefix(Tail(t))
    ELSE <<>>

RECURSIVE NatValue(_)
NatValue(ds) ==
    IF ds = <<>> THEN 0
    ELSE 10 * NatValue(SubSeq(ds, 1, Len(ds) - 1)) + DigitValue(ds[Len(ds)])

Signed(t) == t # <<>> /\ Head(t) = "-"

Unsigned(t) == IF Signed(t) THEN Tail(t) ELSE t

\* std::stod on the text used here (a sign, digits, a point, digits; no
\* blanks, exponents or inf/nan): the value of the longest numeric prefix in
\* thousandths, or an exception when there is none.  Digits after the third
\* decimal are dropped.
Stod(t) ==
    LET whole == DigitPrefix(Unsigned(t))
        rest == SubSeq(Unsigned(t), Len(whole) + 1, Len(Unsigned(t)))
        frac == IF rest # <<>> /\ Head(rest) = "." THEN DigitPrefix(Tail(rest))
                ELSE <<>>
        mag == 1000 * NatValue(whole)
                + NatValue(SubSeq(frac \o <<"0", "0", "0">>, 1, 3))
    IN  [ok |-> whole # <<>> \/ frac # <<>>,
         value |-> IF Signed(t) THEN 0 - mag ELSE mag]

\* std::stoi: the leading integer, or an exception when there is none (the
\* digit strings used here are short: none is out of the range of int)
Stoi(t) ==
    LET whole == DigitPrefix(Unsigned(t))
        mag == NatValue(whole)
    IN  [ok |-> whole # <<>>,
         value |-> IF Signed(t) THEN 0 - mag ELSE mag]

RECURSIVE UpToComma(_)
UpToComma(t) ==
    IF t = <<>> \/ Head(t) = "," THEN <<>>
    ELSE <<Head(t)>> \o UpToComma(Tail(t))

\* std::getline(ss, segment, ','): fails when nothing is left to read (the
\* stream is at its end); otherwise takes the text up to the next comma and
\* drops the comma
GetSegment(t) ==
    LET seg == UpToComma(t)
    IN  [ok |-> t # <<>>, segment |-> seg,
         rest |-> SubSeq(t, Len(seg) + 2, Len(t))]

\* try { s.cost = std::stod(segment); } catch (...) { s.cost = 0.0; }
StodOrZero(t) == IF Stod(t).ok THEN Stod(t).value ELSE 0

\* try { s.duration = std::stoi(segment); } catch (...) { s.duration = 0; }
StoiOrZero(t) == IF Stoi(t).ok THEN Stoi(t).value ELSE 0

\* operator>> on a line that was read: s is filled field by field, and the
\* first segment that cannot be read ends the function with the fields
\* before it assigned and the others as they were.  getline erases the name
\* before it finds an empty line empty.
ReadService(s, ln) ==
    LET f1 == GetSegment(ln)
        f2 == GetSegment(f1.rest)
        f3 == GetSegment(f2.rest)
        s1 == [s EXCEPT !.name = f1.segment]
        s2 == [s1 EXCEPT !.cost = StodOrZero(f2.segment)]
        s3 == [s2 EXCEPT !.duration = StoiOrZero(f3.segment)]
    IN  IF ~f1.ok THEN s1
        ELSE IF ~f2.ok THEN s1
        ELSE IF ~f3.ok THEN s2
        ELSE IF f3.rest = <<>> THEN s3
        ELSE [s3 EXCEPT !.prepayment = StodOrZero(f3.rest)]

\* while (inFile >> tempService) services.push_back(tempService);
RECURSIVE ReadRows(_, _, _)
ReadRows(temp, lines, got) ==
    IF lines = <<>> THEN got
    ELSE ReadRows(ReadService(temp, Head(lines)), Tail(lines),
                  Append(got, ReadService(temp, Head(lines))))

\* a dataset file: whether it can be opened, its lines (the header first),
\* and whether reading fails with an I/O error after them
File(ls) == [exists |-> TRUE, lines |-> ls, bad |-> FALSE]

Missing == [exists |-> FALSE, lines |-> <<>>, bad |-> FALSE]

\* loadServices: services is cleared first; thrown when the file does not
\* open; false on no header, on a read error and on no rows
loadServices(f) ==
    LET rows == IF f.lines = <<>> THEN <<>>
                ELSE ReadRows(DefaultService, Tail(f.lines), <<>>)
    IN  IF ~f.exists THEN [thrown |-> TRUE, ok |-> FALSE, services |-> <<>>]
        ELSE IF f.lines = <<>> THEN [thrown |-> FALSE, ok |-> FALSE, services |-> <<>>]
        ELSE IF f.bad THEN [thrown |-> FALSE, ok |-> FALSE, services |-> rows]
        ELSE [thrown |-> FALSE, ok |-> rows # <<>>, services |-> rows]

\* two decimals of a value in thousandths (std::fixed, std::setprecision(2))
TwoDecimals(v) == IF v >= 0 THEN (v + 5) \div 10 ELSE 0 - ((5 - v) \div 10)

\* operator<< : the row written for a record
Row(s) ==
    [name |-> s.name, cost |-> TwoDecimals(s.cost), duration |-> s.duration,
     prepayment |-> TwoDecimals(s.prepayment)]

Rows(v) == [k \in 1..Len(v) |-> Row(v[k])]

(***************************************************************************)
(* The reader run line by line on the lines of one file.                   *)
(***************************************************************************)
\* the fields of the lines read: empty, not a number, a number followed by
\* other text
Fields == {<<>>, <<"x">>, <<"-", "2", ".", "5", "x">>}

RECURSIVE Join(_)
Join(fs) ==
    IF fs = <<>> THEN <<>>
    ELSE IF Len(fs) = 1 THEN fs[1]
    ELSE fs[1] \o <<",">> \o Join(Tail(fs))

\* every line of up to five comma-separated fields
ParseLines == {Join(fs) : fs \in SeqsUpTo(Fields, 5)}

InitParse ==
    /\ line = <<>> /\ tempService = DefaultService /\ services = <<>>
    /\ lineNo = 0
    /\ IdleCmp /\ IdleSort /\ IdleMain

\* one round of the loop of loadServices: a line is read into tempService,
\* which is appended to services
ReadRow ==
    /\ lineNo < MaxFileLines
    /\ \E ln \in ParseLines :
        /\ line' = ln
        /\ tempService' = ReadService(tempService, ln)
        /\ services' = Append(services, tempService')
    /\ lineNo' = lineNo + 1
    /\ UNCHANGED <<cmpVars, sortVars, mainVars>>

(***************************************************************************)
(* timeSort and main.                                                      *)
(***************************************************************************)
IsSorted(v) == \A k \in 1..(Len(v) - 1) : ~Less(v[k + 1], v[k])

\* std::sort(v.begin(), v.end()): some arrangement of v that operator< finds
\* in order; which one, among records that compare equal, is not specified
StdSort(v) ==
    {w \in {[k \in 1..Len(v) |-> v[q[k]]] : q \in Permutations(1..Len(v))} :
        IsSorted(w)}

\* sortFunction(dataCopy), where std is what std::sort makes of the vector
\* when sortFunction is the lambda around it
SortWith(alg, v, std) ==
    CASE alg = "bubble" -> bubbleSort(v)
      [] alg = "insertion" -> insertionSort(v)
      [] alg = "shaker" -> shakerSort(v)
      [] alg = "std::sort" -> std

\* a faulty variant of timeSort: the sort is run on the caller's vector
timeSortInPlace(alg, data, std) ==
    [arg |-> data, result |-> SortWith(alg, data, std),
     data |-> SortWith(alg, data, std)]

\* timeSort: the vector sortFunction receives, what it has made of it on
\* return, and the caller's vector afterwards.  The returned duration is the
\* clock's and is left out.
timeSort(alg, data, std) ==
    LET copy == data
    IN  [arg |-> copy, result |-> SortWith(alg, copy, std), data |-> data]

\* const std::vector<int> datasetSizes
datasetSizes ==
    <<100, 8100, 16100, 24100, 32100, 40100, 48100, 56100, 64100, 72100, 80100,
      88100, 96100>>

HeaderLine == <<"A", ",", "B">>

\* the dataset files tried: one that does not open, an empty one, one with
\* the header only, two with rows (out of order; with records that compare
\* equal), and one whose reading ends in an I/O error
DatasetFiles ==
    {Missing,
     File(<<>>),
     File(<<HeaderLine>>),
     File(<<HeaderLine, <<"B", ",", "1", ",", "5", ",", "0">>,
            <<"A", ",", "1", ",", "7", ",", "0">>>>),
     File(<<HeaderLine, <<"A", ",", "2", ",", "5", ",", "1">>,
            <<"A", ",", "2", ",", "7", ",", "1">>,
            <<"A", ",", "0", ".", "5", ",", "1", ",", "2">>>>),
     [File(<<HeaderLine, <<"B", ",", "3", ",", "1", ",", "1">>>>) EXCEPT !.bad = TRUE]}

NoOutput == [state |-> "none", rows |-> <<>>]

TimingHeader == [size |-> 0, algorithm |-> "DatasetSize,Algorithm,TimeMilliseconds"]

InitMain ==
    /\ pc = "start" /\ idx = 0
    /\ files \in [1..NumSizes -> DatasetFiles]
    /\ currentData = <<>> /\ currentSize = 0
    /\ sortArg = <<>> /\ dataCopy = <<>>
    /\ timingBuf = <<>> /\ timingDisk = <<>>
    /\ outputFile = NoOutput
    /\ status = [k \in 1..NumSizes |-> "pending"]
    /\ IdleCmp /\ IdleSort /\ IdleParse

\* std::ofstream timingFile(...); return 1 when it is not open, else the
\* header is written
OpenTimingFile ==
    /\ pc = "start"
    /\ \E opens \in BOOLEAN :
        IF opens
        THEN timingBuf' = <<TimingHeader>> /\ pc' = "load"
        ELSE timingBuf' = timingBuf /\ pc' = "exit1"
    /\ UNCHANGED <<idx, files, currentData, currentSize, sortArg, dataCopy,
                   timingDisk, outputFile, status>>
    /\ UNCHANGED <<cmpVars, sortVars, parseVars>>

\* a faulty variant of AfterOpenFailure: the exception ends the run
AfterOpenFailureAbort == "exit1"

\* where the catch of std::runtime_error goes on: continue
AfterOpenFailure == "load"

\* a faulty variant of AfterLoadFailure: break in place of continue
AfterLoadFailureBreak == "save"

\* where main goes on when loadServices returns false: continue
AfterLoadFailure == "load"

\* the head of the for loop with step 1 of its body: the next size's file is
\* loaded into currentData
LoadDataset ==
    /\ pc = "load" /\ idx < NumSizes
    /\ LET r == loadServices(files[idx + 1])
       IN  /\ currentData' = r.services
           /\ IF r.thrown
              THEN /\ status' = [status EXCEPT ![idx + 1] = "open failed"]
                   /\ pc' = AfterOpenFailure
                   /\ idx' = idx + 1
                   /\ currentSize' = datasetSizes[idx + 1]
              ELSE IF ~r.ok
              THEN /\ status' = [status EXCEPT ![idx + 1] = "skipped"]
                   /\ pc' = AfterLoadFailure
                   /\ idx' = idx + 1
                   /\ currentSize' = datasetSizes[idx + 1]
              ELSE /\ status' = [status EXCEPT ![idx + 1] = "loaded"]
                   /\ pc' = "bubble"
                   /\ idx' = idx
                   /\ currentSize' = IF Len(r.services) # datasetSizes[idx + 1]
                                     THEN Len(r.services)
                                     ELSE datasetSizes[idx + 1]
    /\ UNCHANGED <<files, sortArg, dataCopy, timingBuf, timingDisk, outputFile>>
    /\ UNCHANGED <<cmpVars, sortVars, parseVars>>

\* one measurement: timeSort, and the row written to timingFile
Measure(alg, std, next) ==
    /\ LET r == timeSort(alg, currentData, std)
       IN  /\ sortArg' = r.arg
           /\ dataCopy' = r.result
           /\ currentData' = r.data
    /\ timingBuf' = Append(timingBuf, [size |-> currentSize, algorithm |-> alg])
    /\ pc' = next
    /\ UNCHANGED <<idx, files, currentSize, timingDisk, outputFile, status>>
    /\ UNCHANGED <<cmpVars, sortVars, parseVars>>

TimeBubbleSort == pc = "bubble" /\ Measure("bubble", <<>>, "insertion")

TimeInsertionSort == pc = "insertion" /\ Measure("insertion", <<>>, "shaker")

TimeShakerSort == pc = "shaker" /\ Measure("shaker", <<>>, "std::sort")

TimeStdSort ==
    /\ pc = "std::sort"
    /\ \E std \in StdSort(currentData) : Measure("std::sort", std, "flush")

\* timingFile.flush() at the end of the loop body
FlushTimingFile ==
    /\ pc = "flush"
    /\ timingDisk' = timingDisk \o timingBuf
    /\ timingBuf' = <<>>
    /\ idx' = idx + 1
    /\ pc' = "load"
    /\ UNCHANGED <<files, currentData, currentSize, sortArg, dataCopy,
                   outputFile, status>>
    /\ UNCHANGED <<cmpVars, sortVars, parseVars>>

LoopDone ==
    /\ pc = "load" /\ idx = NumSizes
    /\ pc' = "save"
    /\ UNCHANGED <<idx, files, currentData, currentSize, sortArg, dataCopy,
                   timingBuf, timingDisk, outputFile, status>>
    /\ UNCHANGED <<cmpVars, sortVars, parseVars>>

\* step 3 of main: when currentData is not empty, a copy of it is sorted
\* with std::sort and saved; saveServices throws when the file does not open
SaveSorted ==
    /\ pc = "save"
    /\ IF currentData # <<>>
       THEN \E finalSortedData \in StdSort(currentData), opens \in BOOLEAN :
                outputFile' = IF opens
                              THEN [state |-> "written", rows |-> Rows(finalSortedData)]
                              ELSE [state |-> "open failed", rows |-> <<>>]
       ELSE outputFile' = outputFile
    /\ pc' = "close"
    /\ UNCHANGED <<idx, files, currentData, currentSize, sortArg, dataCopy,
                   timingBuf, timingDisk, status>>
    /\ UNCHANGED <<cmpVars, sortVars, parseVars>>

\* timingFile.close(); return 0
CloseTimingFile ==
    /\ pc = "close"
    /\ timingDisk' = timingDisk \o timingBuf
    /\ timingBuf' = <<>>
    /\ pc' = "exit0"
    /\ UNCHANGED <<idx, files, currentData, currentSize, sortArg, dataCopy,
                   outputFile, status>>
    /\ UNCHANGED <<cmpVars, sortVars, parseVars>>

(***************************************************************************)
(* What the claims about the sorts speak of.                               *)
(***************************************************************************)
\* a <= b in the record order: cost, then prepayment, then name
KeyLeq(a, b) ==
    \/ a.cost < b.cost
    \/ /\ a.cost = b.cost
       /\ \/ a.prepayment < b.prepayment
          \/ a.prepayment = b.prepayment /\ ~StrLess(b.name, a.name)

NonDecreasing(a) == \A k \in 1..(Len(a) - 1) : KeyLeq(a[k], a[k + 1])

Count(a, r) == Cardinality({k \in 1..Len(a) : a[k] = r})

SameRecords(a, b) ==
    /\ Len(a) = Len(b)
    /\ \A k \in 1..Len(a) : Count(a, a[k]) = Count(b, a[k])

\* C1: when bubbleSort, insertionSort or shakerSort returns, the vector has
\* the length of the input, is non-decreasing in the record order and holds
\* the same whole records as the input, each as often; no run ends in
\* undefined behaviour.
C1_SortsPermuteIntoOrder ==
    /\ srt.pc # "ub"
    /\ srt.pc = "done" =>
        /\ Len(srt.arr) = Len(input)
        /\ NonDecreasing(srt.arr)
        /\ SameRecords(input, srt.arr)

\* a routine returned a vector that differs from its input and holds two
\* records that compare equal
C1_Witness ==
    /\ srt.pc = "done" /\ srt.arr # input /\ Len(input) = MaxLen
    /\ \E k \in 1..(Len(srt.arr) - 1) :
        /\ srt.arr[k] # srt.arr[k + 1]
        /\ Equal(srt.arr[k], srt.arr[k + 1])

\* C8: every index a sort routine accesses lies in 0..n-1, for every length
\* n >= 0, and a vector of length 0 or 1 is never changed.
C8_AccessesInRange ==
    /\ srt.pc # "ub"
    /\ \A k \in srt.acc : 0 <= k /\ k <= srt.n - 1
    /\ srt.n <= 1 => srt.arr = input

\* a step that accessed the last element of a vector of the greatest length
C8_Witness == srt.n = MaxLen /\ (srt.n - 1) \in srt.acc

\* C9: run on a vector that is already non-decreasing, the routines leave
\* every position holding the record it held, at every step and on return.
C9_SortedInputUnchanged == NonDecreasing(input) => srt.arr = input

\* a routine returned on a sorted vector holding two different records that
\* compare equal
C9_Witness ==
    /\ srt.pc = "done" /\ NonDecreasing(input) /\ Len(input) = MaxLen
    /\ \E k \in 1..(Len(input) - 1) :
        input[k] # input[k + 1] /\ Equal(input[k], input[k + 1])

\* the window of shakerSort and the positions to its right and left
Window(s) == {k \in 0..(s.n - 1) : s.start <= k /\ k <= s.end}

Above(s) == {k \in 0..(s.n - 1) : k > s.end}

Below(s) == {k \in 0..(s.n - 1) : k < s.start}

ShakerWindowInvariant(s) ==
    /\ s.start + s.end = s.n - 1
    /\ \A k \in Above(s) :
        /\ k + 1 <= s.n - 1 => KeyLeq(At(s.arr, k), At(s.arr, k + 1))
        /\ \A m \in Window(s) : KeyLeq(At(s.arr, m), At(s.arr, k))
        /\ At(s.arr, k) = At(shakerSort(input), k)
    /\ \A k \in Below(s) :
        /\ k >= 1 => KeyLeq(At(s.arr, k - 1), At(s.arr, k))
        /\ \A m \in Window(s) : KeyLeq(At(s.arr, k), At(s.arr, m))
        /\ At(s.arr, k) = At(shakerSort(input), k)

EqualTo(a, r) == SelectSeq(a, LAMBDA x : Equal(x, r))

\* the states in which arr holds every input record once: all states of
\* bubbleSort and shakerSort, and insertionSort between two insertions (while
\* it shifts, the record being inserted is held in key)
BetweenMoves(s) == s.alg = "insertion" => s.pc \in {"outer", "done"}

\* C11: the records that compare equal to one another stand in the vector in
\* the order they had in the input, after every move of bubbleSort and
\* shakerSort, after every insertion of insertionSort, and on return.
C11_EqualRecordsKeepOrder ==
    BetweenMoves(srt) =>
        \A k \in 1..Len(input) : EqualTo(srt.arr, input[k]) = EqualTo(input, input[k])

\* a routine returned on an input in which two records that differ in
\* duration only had a greater record between them
C11_Witness ==
    /\ srt.pc = "done" /\ srt.arr # input
    /\ \E k \in 1..Len(input), j \in 1..Len(input), m \in 1..Len(input) :
        /\ k < j /\ j < m
        /\ input[k] # input[m] /\ Equal(input[k], input[m])
        /\ Less(input[k], input[j])

(***************************************************************************)
(* What the claims about the comparison operators speak of.                *)
(***************************************************************************)
\* C7: over records with finite fields, operator< is irreflexive and
\* transitive, a < b excludes b < a, a == b holds exactly when neither
\* a < b nor b < a, and records that differ in duration only compare equal.
C7_StrictOrder ==
    rel.done =>
        /\ ~rel.aa
        /\ rel.ab /\ rel.bc => rel.ac
        /\ rel.ab => ~rel.ba
        /\ rel.eq <=> (~rel.ab /\ ~rel.ba)
        /\ [opA EXCEPT !.duration = opB.duration] = opB => rel.eq

\* two different records that compare equal, both below a third that has
\* their cost and prepayment
C7_Witness ==
    /\ rel.done /\ opA # opB /\ rel.eq /\ rel.bc /\ rel.ac
    /\ opC.cost = opB.cost /\ opC.prepayment = opB.prepayment

(***************************************************************************)
(* What the claims about the reader speak of.                              *)
(***************************************************************************)
\* the comma-separated fields of a line
RECURSIVE CommaSplit(_)
CommaSplit(t) ==
    IF Len(UpToComma(t)) = Len(t) THEN <<t>>
    ELSE <<UpToComma(t)>> \o CommaSplit(SubSeq(t, Len(UpToComma(t)) + 2, Len(t)))

\* field k of the line is missing, or no number starts it
NoNumber(t, k) == Len(CommaSplit(t)) < k \/ ~Stod(CommaSplit(t)[k]).ok

\* C5: the record made of a line has zero in every numeric field that is
\* missing from the line or is not a number, whatever the lines before it
\* held, and the row is appended to the dataset.
C5_BadFieldsAreZero ==
    lineNo >= 1 =>
        /\ Len(services) = lineNo
        /\ NoNumber(line, 2) => services[lineNo].cost = 0
        /\ NoNumber(line, 3) => services[lineNo].duration = 0
        /\ NoNumber(line, 4) => services[lineNo].prepayment = 0

(***************************************************************************)
(* What the claims about main speak of.                                    *)
(***************************************************************************)
Loaded(k) == loadServices(files[k])

Succeeded == {k \in 1..NumSizes : Loaded(k).ok}

LastSucceeded == CHOOSE k \in Succeeded : \A m \in Succeeded : m <= k

NoReadError == \A k \in 1..NumSizes : ~files[k].bad

\* C2: at the end of a run without I/O errors (no read error in a dataset
\* file, the output file could be opened), the sorted output holds the
\* records of the last size that loaded successfully, in ascending order,
\* whenever some size loaded successfully, and is not written only when
\* none did.
C2_LastLoadedIsSaved ==
    pc = "exit0" /\ outputFile.state # "open failed" /\ NoReadError =>
        IF Succeeded # {}
        THEN /\ outputFile.state = "written"
             /\ \E w \in StdSort(Loaded(LastSucceeded).services) :
                    outputFile.rows = Rows(w)
        ELSE outputFile.state = "none"

\* C3 as stated: after a size whose file did not open, no later size is
\* loaded or measured.
C3_OpenFailureAborts ==
    \A k \in 1..NumSizes, m \in 1..NumSizes :
        k < m /\ status[k] = "open failed" => status[m] = "pending"

\* C3, amended: a size whose file does not open is reported and skipped
\* without a row being written, the loop goes on with the next size, and a
\* run that returns 0 has tried every size.
C3_OpenFailureSkipsSize ==
    /\ [](pc = "exit0" => \A k \in 1..NumSizes : status[k] # "pending")
    /\ [][(pc = "load" /\ idx < NumSizes /\ ~files[idx + 1].exists) =>
            /\ pc' = "load" /\ idx' = idx + 1
            /\ status' = [status EXCEPT ![idx + 1] = "open failed"]
            /\ timingBuf' = timingBuf /\ timingDisk' = timingDisk]_vars

\* a run that ended with a size loaded and measured after one whose file did
\* not open
C3_Witness ==
    /\ pc = "exit0"
    /\ \E k \in 1..NumSizes, m \in 1..NumSizes :
        /\ k < m /\ status[k] = "open failed" /\ status[m] = "loaded"
        /\ \E n \in 1..Len(timingDisk) : timingDisk[n].size = Len(Loaded(m).services)

\* C4: while a size is measured, currentData is the dataset as loaded, and
\* each sort has received a vector equal to it.
C4_TimeSortKeepsData ==
    /\ pc \in {"bubble", "insertion", "shaker", "std::sort", "flush"}
        => currentData = Loaded(idx + 1).services
    /\ pc \in {"insertion", "shaker", "std::sort", "flush"}
        => sortArg = Loaded(idx + 1).services

\* all four sorts have run on a dataset that was not in order
C4_Witness == pc = "flush" /\ dataCopy # currentData /\ sortArg = currentData

FourRows(n) ==
    <<[size |-> n, algorithm |-> "bubble"], [size |-> n, algorithm |-> "insertion"],
      [size |-> n, algorithm |-> "shaker"], [size |-> n, algorithm |-> "std::sort"]>>

\* the log after the first k sizes
RECURSIVE LogUpTo(_)
LogUpTo(k) ==
    IF k = 0 THEN <<TimingHeader>>
    ELSE LogUpTo(k - 1)
            \o (IF Loaded(k).ok THEN FourRows(Len(Loaded(k).services)) ELSE <<>>)

\* C6: once the log is open, what was written to it is the header and, for
\* each size loaded successfully so far, in the configured order, the rows
\* of bubble, insertion, shaker and std::sort; at the head of the loop
\* nothing written for a size is still in the buffer; a run that returns 0
\* has tried every size and left the whole log on disk.
C6_TimingLog ==
    /\ pc = "load" =>
        /\ timingDisk \o timingBuf = LogUpTo(idx)
        /\ timingBuf = <<>> \/ (timingDisk = <<>> /\ timingBuf = <<TimingHeader>>)
    /\ pc \in {"save", "close"} => timingDisk \o timingBuf = LogUpTo(NumSizes)
    /\ pc = "exit0" =>
        /\ timingDisk = LogUpTo(NumSizes)
        /\ \A k \in 1..NumSizes : status[k] # "pending"

\* a run ended in which a size with a header-only file lies between two
\* sizes that were measured
C6_Witness ==
    /\ pc = "exit0" /\ Len(timingDisk) >= 9
    /\ \E k \in 2..(NumSizes - 1) :
        /\ files[k] = File(<<HeaderLine>>) /\ status[k] = "skipped"
        /\ status[k - 1] = "loaded" /\ status[k + 1] = "loaded"

(***************************************************************************)
(* Specifications.                                                         *)
(***************************************************************************)
NextCmp == Compare

SpecCmp == InitCmp /\ [][NextCmp]_vars

NextSort == BubbleSortStep \/ InsertionSortStep \/ ShakerSortStep

SpecSort == InitSort /\ [][NextSort]_vars

NextParse == ReadRow

SpecParse == InitParse /\ [][NextParse]_vars

NextMain ==
    \/ OpenTimingFile
    \/ LoadDataset
    \/ TimeBubbleSort
    \/ TimeInsertionSort
    \/ TimeShakerSort
    \/ TimeStdSort
    \/ FlushTimingFile
    \/ LoopDone
    \/ SaveSorted
    \/ CloseTimingFile

SpecMain == InitMain /\ [][NextMain]_vars
====
